---- MODULE Spec2Model ----
(***************************************************************************)
(* Model of cluster-autoscaler/cloudprovider/azure/azure_config.go:        *)
(* BuildAzureConfig, initializeCloudProviderRateLimitConfig,               *)
(* overrideDefaultRateLimitConfig, Config.getAzureClientConfig,            *)
(* Config.TrimSpace and Config.validate.                                   *)
(*                                                                         *)
(* Conventions.                                                            *)
(*  - A Go string is a sequence of one-character strings, so that          *)
(*    strings.TrimSpace, strings.ToLower and the strconv parsers are       *)
(*    computed character by character.                                     *)
(*  - A float (float32 / float64) is held in tenths: 1.5 is 15.            *)
(*  - A time.Duration is held in milliseconds (time.Second is 1000).       *)
(*  - An error is a TLA+ string naming the failing return; NoErr is nil.   *)
(*  - A *RateLimitConfig is a record [ptr |-> "nil"], [ptr |-> "defaults"] *)
(*    (the address of the embedded global RateLimitConfig) or              *)
(*    [ptr |-> "obj", obj |-> r] (an object of its own).                   *)
(***************************************************************************)
EXTENDS Integers, Sequences, FiniteSets, TLC

VARIABLES
    configReader,  \* the io.Reader handed to BuildAzureConfig
    env,           \* the process environment: a function from the set variables to strings
    imds,          \* what the instance metadata service answers
    deployFile,    \* what readDeploymentParameters(deploymentParametersPath) answers
    given,         \* the argument as it was handed to the operation (never changes)
    cfg,           \* the Config under construction (cfg := &Config{}), mutated in place
    pc,            \* the position in the operation
    err,           \* the error returned (NoErr: nil)
    ret            \* the *Config returned (NilConfig: nil)

vars == <<configReader, env, imds, deployFile, given, cfg, pc, err, ret>>

NoErr == "nil"

----------------------------------------------------------------------------
(* Strings and the strconv parsers.                                         *)

Space == {" ", "\t", "\n"}

Digits == <<"0", "1", "2", "3", "4", "5", "6", "7", "8", "9">>

IsDigit(c) == \E i \in 1..10 : Digits[i] = c

DigitVal(c) == (CHOOSE i \in 1..10 : Digits[i] = c) - 1

AllDigits(s) == Len(s) > 0 /\ \A i \in 1..Len(s) : IsDigit(s[i])

RECURSIVE DecVal(_)
DecVal(s) == IF s = <<>> THEN 0
             ELSE 10 * DecVal(SubSeq(s, 1, Len(s) - 1)) + DigitVal(s[Len(s)])

\* strconv.ParseInt(s, 10, 0) and strconv.Atoi(s): an optional sign and decimal
\* digits; anything else is an error.
ParseInt(s) ==
    LET body == IF s # <<>> /\ s[1] \in {"-", "+"} THEN SubSeq(s, 2, Len(s)) ELSE s
        neg  == s # <<>> /\ s[1] = "-"
    IN  IF AllDigits(body)
        THEN [ok |-> TRUE, val |-> IF neg THEN 0 - DecVal(body) ELSE DecVal(body)]
        ELSE [ok |-> FALSE, val |-> 0]

\* strconv.ParseFloat(s, 64), result in tenths, for the decimal forms "d..d" and
\* "d..d.d" (the forms the inputs below use); any other modelled input is an error.
ParseFloat(s) ==
    LET dots == {i \in 1..Len(s) : s[i] = "."}
    IN  IF dots = {}
        THEN IF AllDigits(s) THEN [ok |-> TRUE, val |-> 10 * DecVal(s)]
                             ELSE [ok |-> FALSE, val |-> 0]
        ELSE LET d == CHOOSE i \in dots : TRUE
                 ip == SubSeq(s, 1, d - 1)
                 fp == SubSeq(s, d + 1, Len(s))
             IN  IF Cardinality(dots) = 1 /\ AllDigits(ip) /\ AllDigits(fp) /\ Len(fp) = 1
                 THEN [ok |-> TRUE, val |-> 10 * DecVal(ip) + DecVal(fp)]
                 ELSE [ok |-> FALSE, val |-> 0]

\* strconv.ParseBool(s)
ParseBool(s) ==
    IF s \in {<<"1">>, <<"t">>, <<"T">>, <<"t", "r", "u", "e">>,
              <<"T", "R", "U", "E">>, <<"T", "r", "u", "e">>}
    THEN [ok |-> TRUE, val |-> TRUE]
    ELSE IF s \in {<<"0">>, <<"f">>, <<"F">>, <<"f", "a", "l", "s", "e">>,
                   <<"F", "A", "L", "S", "E">>, <<"F", "a", "l", "s", "e">>}
    THEN [ok |-> TRUE, val |-> FALSE]
    ELSE [ok |-> FALSE, val |-> FALSE]

\* os.Getenv(name): the value, or "" when the variable is not set.
Getenv(e, name) == IF name \in DOMAIN e THEN e[name] ELSE <<>>

\* os.LookupEnv(name)
LookupEnv(e, name) ==
    [present |-> name \in DOMAIN e, val |-> IF name \in DOMAIN e THEN e[name] ELSE <<>>]

----------------------------------------------------------------------------
(* Rate limits.                                                             *)

rateLimitQPSDefault == 10
rateLimitBucketDefault == 5

rateLimitReadQPSEnvVar == "RATE_LIMIT_READ_QPS"
rateLimitReadBucketsEnvVar == "RATE_LIMIT_READ_BUCKETS"
rateLimitWriteQPSEnvVar == "RATE_LIMIT_WRITE_QPS"
rateLimitWriteBucketsEnvVar == "RATE_LIMIT_WRITE_BUCKETS"

\* The six per-client fields of CloudProviderRateLimitConfig.
Kinds == {"InterfaceRateLimit", "VirtualMachineRateLimit", "StorageAccountRateLimit",
          "DiskRateLimit", "VirtualMachineScaleSetRateLimit", "KubernetesServiceRateLimit"}

\* azclients.RateLimitConfig{} (the zero value)
ZeroRateLimitConfig ==
    [CloudProviderRateLimit |-> FALSE,
     CloudProviderRateLimitQPS |-> 0,
     CloudProviderRateLimitBucket |-> 0,
     CloudProviderRateLimitQPSWrite |-> 0,
     CloudProviderRateLimitBucketWrite |-> 0]

NilPtr == [ptr |-> "nil"]
DefaultsPtr == [ptr |-> "defaults"]
ObjPtr(r) == [ptr |-> "obj", obj |-> r]

\* CloudProviderRateLimitConfig{} (the zero value)
ZeroCloudProviderRateLimitConfig ==
    [RateLimitConfig |-> ZeroRateLimitConfig,
     InterfaceRateLimit |-> NilPtr,
     VirtualMachineRateLimit |-> NilPtr,
     StorageAccountRateLimit |-> NilPtr,
     DiskRateLimit |-> NilPtr,
     VirtualMachineScaleSetRateLimit |-> NilPtr,
     KubernetesServiceRateLimit |-> NilPtr]

\* What a *RateLimitConfig field of config points to.
Deref(config, p) == IF p.ptr = "defaults" THEN config.RateLimitConfig ELSE p.obj

\* Mutants of overrideDefaultRateLimitConfig.
\* (a) the explicit "remain disabled" return is missing: a disabled override is
\*     filled like an enabled one.
overrideDefaultRateLimitConfig_NoDisabledReturn(defaults, config) ==
    IF config.ptr = "nil" THEN DefaultsPtr
    ELSE ObjPtr([f \in DOMAIN config.obj |->
                    IF f # "CloudProviderRateLimit" /\ config.obj[f] = 0
                    THEN defaults[f] ELSE config.obj[f]])

\* (b) a missing override gets the hard defaults, not the resolved global default.
overrideDefaultRateLimitConfig_HardDefaults(defaults, config) ==
    IF config.ptr = "nil"
    THEN ObjPtr([CloudProviderRateLimit |-> defaults.CloudProviderRateLimit,
                 CloudProviderRateLimitQPS |-> 10,
                 CloudProviderRateLimitBucket |-> 5,
                 CloudProviderRateLimitQPSWrite |-> 10,
                 CloudProviderRateLimitBucketWrite |-> 5])
    ELSE IF ~config.obj.CloudProviderRateLimit THEN ObjPtr(ZeroRateLimitConfig)
    ELSE ObjPtr([f \in DOMAIN config.obj |->
                    IF f # "CloudProviderRateLimit" /\ config.obj[f] = 0
                    THEN defaults[f] ELSE config.obj[f]])

\* (c) the write fields are filled from the defaults' read fields.
overrideDefaultRateLimitConfig_WriteFromRead(defaults, config) ==
    IF config.ptr = "nil" THEN DefaultsPtr
    ELSE IF ~config.obj.CloudProviderRateLimit THEN ObjPtr(ZeroRateLimitConfig)
    ELSE ObjPtr([f \in DOMAIN config.obj |->
                    IF f = "CloudProviderRateLimit" \/ config.obj[f] # 0 THEN config.obj[f]
                    ELSE IF f = "CloudProviderRateLimitQPSWrite"
                         THEN defaults.CloudProviderRateLimitQPS
                    ELSE IF f = "CloudProviderRateLimitBucketWrite"
                         THEN defaults.CloudProviderRateLimitBucket
                    ELSE defaults[f]])

\* Lines 443-469.
overrideDefaultRateLimitConfig(defaults, config) ==
    IF config.ptr = "nil" THEN DefaultsPtr
    ELSE IF ~config.obj.CloudProviderRateLimit
    THEN ObjPtr([ZeroRateLimitConfig EXCEPT !.CloudProviderRateLimit = FALSE])
    ELSE LET c1 == IF config.obj.CloudProviderRateLimitQPS = 0
                   THEN [config.obj EXCEPT !.CloudProviderRateLimitQPS =
                                               defaults.CloudProviderRateLimitQPS]
                   ELSE config.obj
             c2 == IF c1.CloudProviderRateLimitBucket = 0
                   THEN [c1 EXCEPT !.CloudProviderRateLimitBucket =
                                       defaults.CloudProviderRateLimitBucket]
                   ELSE c1
             c3 == IF c2.CloudProviderRateLimitQPSWrite = 0
                   THEN [c2 EXCEPT !.CloudProviderRateLimitQPSWrite =
                                       defaults.CloudProviderRateLimitQPSWrite]
                   ELSE c2
             c4 == IF c3.CloudProviderRateLimitBucketWrite = 0
                   THEN [c3 EXCEPT !.CloudProviderRateLimitBucketWrite =
                                       defaults.CloudProviderRateLimitBucketWrite]
                   ELSE c3
         IN  ObjPtr(c4)

\* Lines 383-393: the global read QPS.
DefaultReadQPS(config, e) ==
    LET d == config.RateLimitConfig
        s == Getenv(e, rateLimitReadQPSEnvVar)
    IN  IF d.CloudProviderRateLimitQPS # 0 THEN [config |-> config, err |-> NoErr]
        ELSE IF s # <<>>
        THEN IF ~ParseFloat(s).ok
             THEN [config |-> config, err |-> "failed to parse RATE_LIMIT_READ_QPS"]
             ELSE [config |-> [config EXCEPT !.RateLimitConfig.CloudProviderRateLimitQPS =
                                                 ParseFloat(s).val],
                   err |-> NoErr]
        ELSE [config |-> [config EXCEPT !.RateLimitConfig.CloudProviderRateLimitQPS =
                                            rateLimitQPSDefault],
              err |-> NoErr]

\* Lines 395-405: the global read bucket.
DefaultReadBucket(config, e) ==
    LET d == config.RateLimitConfig
        s == Getenv(e, rateLimitReadBucketsEnvVar)
    IN  IF d.CloudProviderRateLimitBucket # 0 THEN [config |-> config, err |-> NoErr]
        ELSE IF s # <<>>
        THEN IF ~ParseInt(s).ok
             THEN [config |-> config, err |-> "failed to parse RATE_LIMIT_READ_BUCKETS"]
             ELSE [config |-> [config EXCEPT !.RateLimitConfig.CloudProviderRateLimitBucket =
                                                 ParseInt(s).val],
                   err |-> NoErr]
        ELSE [config |-> [config EXCEPT !.RateLimitConfig.CloudProviderRateLimitBucket =
                                            rateLimitBucketDefault],
              err |-> NoErr]

\* Mutant of DefaultWriteQPS: an unset write QPS takes the hard default, not the
\* resolved read QPS.
DefaultWriteQPS_HardDefault(config, e) ==
    LET d == config.RateLimitConfig
        s == Getenv(e, rateLimitWriteQPSEnvVar)
    IN  IF d.CloudProviderRateLimitQPSWrite # 0 THEN [config |-> config, err |-> NoErr]
        ELSE IF s # <<>>
        THEN IF ~ParseFloat(s).ok
             THEN [config |-> config, err |-> "failed to parse RATE_LIMIT_WRITE_QPS"]
             ELSE [config |-> [config EXCEPT !.RateLimitConfig.CloudProviderRateLimitQPSWrite =
                                                 ParseFloat(s).val],
                   err |-> NoErr]
        ELSE [config |-> [config EXCEPT !.RateLimitConfig.CloudProviderRateLimitQPSWrite =
                                            rateLimitQPSDefault],
              err |-> NoErr]

\* Lines 408-418: the global write QPS.
DefaultWriteQPS(config, e) ==
    LET d == config.RateLimitConfig
        s == Getenv(e, rateLimitWriteQPSEnvVar)
    IN  IF d.CloudProviderRateLimitQPSWrite # 0 THEN [config |-> config, err |-> NoErr]
        ELSE IF s # <<>>
        THEN IF ~ParseFloat(s).ok
             THEN [config |-> config, err |-> "failed to parse RATE_LIMIT_WRITE_QPS"]
             ELSE [config |-> [config EXCEPT !.RateLimitConfig.CloudProviderRateLimitQPSWrite =
                                                 ParseFloat(s).val],
                   err |-> NoErr]
        ELSE [config |-> [config EXCEPT !.RateLimitConfig.CloudProviderRateLimitQPSWrite =
                                            d.CloudProviderRateLimitQPS],
              err |-> NoErr]

\* Mutant of DefaultWriteBucket: the write bucket is never defaulted.
DefaultWriteBucket_Skipped(config, e) == [config |-> config, err |-> NoErr]

\* Lines 420-430: the global write bucket.
DefaultWriteBucket(config, e) ==
    LET d == config.RateLimitConfig
        s == Getenv(e, rateLimitWriteBucketsEnvVar)
    IN  IF d.CloudProviderRateLimitBucketWrite # 0 THEN [config |-> config, err |-> NoErr]
        ELSE IF s # <<>>
        THEN IF ~ParseInt(s).ok
             THEN [config |-> config, err |-> "failed to parse RATE_LIMIT_WRITE_BUCKETS"]
             ELSE [config |-> [config EXCEPT
                                  !.RateLimitConfig.CloudProviderRateLimitBucketWrite =
                                      ParseInt(s).val],
                   err |-> NoErr]
        ELSE [config |-> [config EXCEPT !.RateLimitConfig.CloudProviderRateLimitBucketWrite =
                                            d.CloudProviderRateLimitBucket],
              err |-> NoErr]

\* Lines 432-437: the six overrides, each against the resolved global default.
ApplyOverrides(config) ==
    LET d == config.RateLimitConfig
    IN  [config EXCEPT
            !.InterfaceRateLimit = overrideDefaultRateLimitConfig(d, @),
            !.VirtualMachineRateLimit = overrideDefaultRateLimitConfig(d, @),
            !.StorageAccountRateLimit = overrideDefaultRateLimitConfig(d, @),
            !.DiskRateLimit = overrideDefaultRateLimitConfig(d, @),
            !.VirtualMachineScaleSetRateLimit = overrideDefaultRateLimitConfig(d, @),
            !.KubernetesServiceRateLimit = overrideDefaultRateLimitConfig(d, @)]

\* The result is the config as the function leaves it (it is mutated in place,
\* also when an error is returned) and the error.
initializeCloudProviderRateLimitConfig(config, e) ==
    LET r1 == DefaultReadQPS(config, e)
        r2 == DefaultReadBucket(r1.config, e)
        r3 == DefaultWriteQPS(r2.config, e)
        r4 == DefaultWriteBucket(r3.config, e)
    IN  IF r1.err # NoErr THEN r1
        ELSE IF r2.err # NoErr THEN r2
        ELSE IF r3.err # NoErr THEN r3
        ELSE IF r4.err # NoErr THEN r4
        ELSE [config |-> ApplyOverrides(r4.config), err |-> NoErr]

----------------------------------------------------------------------------
(* The Config struct.                                                       *)

StringFields == {"Cloud", "Location", "TenantID", "SubscriptionID", "ClusterName",
                 "ResourceGroup", "ClusterResourceGroup", "VMType",
                 "ARMBaseURLForAPClient", "AuthMethod", "AADClientID",
                 "AADClientSecret", "AADClientCertPath", "AADClientCertPassword",
                 "AADFederatedTokenFile", "UserAssignedIdentityID", "Deployment"}

\* Config{} (the zero value). DeploymentParameters holds the keys of the map.
ZeroConfig ==
    [CloudProviderRateLimitConfig |-> ZeroCloudProviderRateLimitConfig,
     Cloud |-> <<>>, Location |-> <<>>, TenantID |-> <<>>, SubscriptionID |-> <<>>,
     ClusterName |-> <<>>, ResourceGroup |-> <<>>, ClusterResourceGroup |-> <<>>,
     VMType |-> <<>>, ARMBaseURLForAPClient |-> <<>>, AuthMethod |-> <<>>,
     AADClientID |-> <<>>, AADClientSecret |-> <<>>, AADClientCertPath |-> <<>>,
     AADClientCertPassword |-> <<>>, AADFederatedTokenFile |-> <<>>,
     UseManagedIdentityExtension |-> FALSE, UseWorkloadIdentityExtension |-> FALSE,
     UserAssignedIdentityID |-> <<>>,
     Deployment |-> <<>>, DeploymentParameters |-> {},
     VmssCacheTTL |-> 0, VmssVmsCacheTTL |-> 0, VmssVmsCacheJitter |-> 0,
     GetVmssSizeRefreshPeriod |-> 0, MaxDeploymentsCount |-> 0,
     CloudProviderBackoff |-> FALSE, CloudProviderBackoffRetries |-> 0,
     CloudProviderBackoffExponent |-> 0, CloudProviderBackoffDuration |-> 0,
     CloudProviderBackoffJitter |-> 0,
     EnableForceDelete |-> FALSE, EnableDynamicInstanceList |-> FALSE,
     EnableVmssFlex |-> FALSE]

NilConfig == [nil |-> TRUE]

----------------------------------------------------------------------------
(* Inputs of initializeCloudProviderRateLimitConfig: the zero value of       *)
(* CloudProviderRateLimitConfig and an empty environment, changed in at most *)
(* MaxRateLimitInputs places. A place is a field of the global default, a    *)
(* rate limit environment variable, or a field of one kind's override (the   *)
(* override object exists as soon as one of its places is used).             *)

MaxRateLimitInputs == 3

RateFields == {"CloudProviderRateLimitQPS", "CloudProviderRateLimitBucket",
               "CloudProviderRateLimitQPSWrite", "CloudProviderRateLimitBucketWrite"}

RateLimitEnvVars == {rateLimitReadQPSEnvVar, rateLimitReadBucketsEnvVar,
                     rateLimitWriteQPSEnvVar, rateLimitWriteBucketsEnvVar}

RateLimitPlaces ==
    ({"global"} \cup Kinds) \X (RateFields \cup {"CloudProviderRateLimit"})
    \cup (Kinds \X {"present"})
    \cup ({"env"} \X RateLimitEnvVars)

\* The untouched value of a place: zero, false, absent, unset.
RateLimitBase ==
    [p \in RateLimitPlaces |->
        IF p[1] = "env" THEN <<>>
        ELSE IF p[2] \in RateFields THEN 0
        ELSE FALSE]

\* The other values a place may take. An environment variable that is set
\* holds <<s>>, s its string.
RateLimitChoices ==
    {<<<<"global", "CloudProviderRateLimit">>, TRUE>>,
     <<<<"global", "CloudProviderRateLimitQPS">>, 20>>,
     <<<<"global", "CloudProviderRateLimitBucket">>, 7>>,
     <<<<"global", "CloudProviderRateLimitQPSWrite">>, 30>>,
     <<<<"global", "CloudProviderRateLimitBucketWrite">>, 9>>,
     <<<<"env", rateLimitReadQPSEnvVar>>, <<<<"0">>>>>>,
     <<<<"env", rateLimitReadQPSEnvVar>>, <<<<"2", ".", "5">>>>>>,
     <<<<"env", rateLimitReadQPSEnvVar>>, <<<<"x">>>>>>,
     <<<<"env", rateLimitReadBucketsEnvVar>>, <<<<"0">>>>>>,
     <<<<"env", rateLimitReadBucketsEnvVar>>, <<<<"1", "2">>>>>>,
     <<<<"env", rateLimitReadBucketsEnvVar>>, <<<<"1", ".", "5">>>>>>,
     <<<<"env", rateLimitWriteQPSEnvVar>>, <<<<"0">>>>>>,
     <<<<"env", rateLimitWriteQPSEnvVar>>, <<<<"3", ".", "5">>>>>>,
     <<<<"env", rateLimitWriteQPSEnvVar>>, <<<<"x">>>>>>,
     <<<<"env", rateLimitWriteBucketsEnvVar>>, <<<<"0">>>>>>,
     <<<<"env", rateLimitWriteBucketsEnvVar>>, <<<<"-", "6">>>>>>,
     <<<<"env", rateLimitWriteBucketsEnvVar>>, <<<<"x">>>>>>}
    \cup {<<<<k, "present">>, TRUE>> : k \in Kinds}
    \cup {<<<<k, "CloudProviderRateLimit">>, TRUE>> : k \in Kinds}
    \cup {<<<<k, "CloudProviderRateLimitQPS">>, 40>> : k \in Kinds}
    \cup {<<<<k, "CloudProviderRateLimitBucket">>, 11>> : k \in Kinds}
    \cup {<<<<k, "CloudProviderRateLimitQPSWrite">>, 50>> : k \in Kinds}
    \cup {<<<<k, "CloudProviderRateLimitBucketWrite">>, 13>> : k \in Kinds}

RECURSIVE RateLimitInputs(_)
RateLimitInputs(n) ==
    IF n = 0 THEN {RateLimitBase}
    ELSE LET less == RateLimitInputs(n - 1)
         IN  less \cup {[f EXCEPT ![c[1]] = c[2]] : f \in less, c \in RateLimitChoices}

\* The CloudProviderRateLimitConfig an input stands for.
RateLimitInputConfig(in) ==
    LET object(k) == [f \in RateFields \cup {"CloudProviderRateLimit"} |-> in[<<k, f>>]]
        pointer(k) == IF \E p \in RateLimitPlaces : p[1] = k /\ in[p] # RateLimitBase[p]
                      THEN ObjPtr(object(k)) ELSE NilPtr
    IN  [RateLimitConfig |-> object("global"),
         InterfaceRateLimit |-> pointer("InterfaceRateLimit"),
         VirtualMachineRateLimit |-> pointer("VirtualMachineRateLimit"),
         StorageAccountRateLimit |-> pointer("StorageAccountRateLimit"),
         DiskRateLimit |-> pointer("DiskRateLimit"),
         VirtualMachineScaleSetRateLimit |-> pointer("VirtualMachineScaleSetRateLimit"),
         KubernetesServiceRateLimit |-> pointer("KubernetesServiceRateLimit")]

\* The environment an input stands for.
RateLimitInputEnv(in) ==
    [v \in {w \in RateLimitEnvVars : in[<<"env", w>>] # <<>>} |-> in[<<"env", v>>][1]]

\* The last of the MaxRateLimitInputs changes is drawn here (it may repeat or
\* undo an earlier one), so that the set of all inputs is never built.
InitRateLimit ==
    /\ \E f \in RateLimitInputs(MaxRateLimitInputs - 1) :
       \E c \in RateLimitChoices \cup {<<<<"global", "CloudProviderRateLimit">>, FALSE>>} :
          LET in == [f EXCEPT ![c[1]] = c[2]]
          IN  /\ cfg = [ZeroConfig EXCEPT
                           !.CloudProviderRateLimitConfig = RateLimitInputConfig(in)]
              /\ env = RateLimitInputEnv(in)
    /\ given = cfg
    /\ configReader = [nil |-> TRUE, fault |-> "none", body |-> <<>>]
    /\ imds = [ok |-> TRUE, val |-> <<>>]
    /\ deployFile = [ok |-> TRUE, val |-> {}]
    /\ pc = "initializeCloudProviderRateLimitConfig"
    /\ err = NoErr
    /\ ret = NilConfig

\* A call of initializeCloudProviderRateLimitConfig(&cfg.CloudProviderRateLimitConfig).
CallInitializeRateLimit ==
    /\ pc = "initializeCloudProviderRateLimitConfig"
    /\ LET r == initializeCloudProviderRateLimitConfig(cfg.CloudProviderRateLimitConfig, env)
       IN  /\ cfg' = [cfg EXCEPT !.CloudProviderRateLimitConfig = r.config]
           /\ err' = r.err
    /\ pc' = "returned"
    /\ UNCHANGED <<configReader, env, imds, deployFile, given, ret>>

SpecRateLimit == InitRateLimit /\ [][CallInitializeRateLimit]_vars

----------------------------------------------------------------------------
(* Claims C1-C5: the rate limit resolver, under SpecRateLimit.               *)

\* initializeCloudProviderRateLimitConfig has returned nil.
RateLimitResolved == pc = "returned" /\ err = NoErr

GivenRL == given.CloudProviderRateLimitConfig
CfgRL == cfg.CloudProviderRateLimitConfig

\* The override object supplied for kind k exists and has the enabled flag b.
GivenOverride(k, b) ==
    GivenRL[k].ptr = "obj" /\ GivenRL[k].obj.CloudProviderRateLimit = b

\* The effective policy of kind k.
Effective(k) == Deref(CfgRL, CfgRL[k])

\* C1: for every kind supplied with an override whose enabled flag is false, after
\* initializeCloudProviderRateLimitConfig returns nil the kind's policy has
\* enabled = false and read QPS, read bucket, write QPS and write bucket all zero,
\* whatever the override and the global default hold.
C1_DisabledOverrideIsZero ==
    RateLimitResolved =>
        \A k \in Kinds :
            GivenOverride(k, FALSE) =>
                /\ CfgRL[k].ptr # "nil"
                /\ Effective(k).CloudProviderRateLimit = FALSE
                /\ \A f \in RateFields : Effective(k)[f] = 0

C1_Witness ==
    /\ RateLimitResolved
    /\ \E k \in Kinds :
          /\ GivenOverride(k, FALSE)
          /\ \E f \in RateFields : GivenRL[k].obj[f] # 0
          /\ Effective(k) = ZeroRateLimitConfig

\* C2: for every kind supplied with no override, after
\* initializeCloudProviderRateLimitConfig returns nil the kind's policy equals the
\* resolved global default in the enabled flag and in all four numeric fields.
C2_AbsentOverrideIsGlobalDefault ==
    RateLimitResolved =>
        \A k \in Kinds :
            GivenRL[k].ptr = "nil" =>
                /\ CfgRL[k].ptr # "nil"
                /\ \A f \in RateFields \cup {"CloudProviderRateLimit"} :
                      Effective(k)[f] = CfgRL.RateLimitConfig[f]

C2_Witness ==
    /\ RateLimitResolved
    /\ \E k \in Kinds :
          /\ GivenRL[k].ptr = "nil"
          /\ GivenRL.RateLimitConfig.CloudProviderRateLimitQPS # 0
          /\ GivenRL.RateLimitConfig.CloudProviderRateLimit
          /\ Effective(k) = CfgRL.RateLimitConfig
          /\ Effective(k).CloudProviderRateLimitQPS # rateLimitQPSDefault

\* C3: for every kind supplied with an override whose enabled flag is true, each of
\* the four numeric fields of the kind's policy is the override's value when that
\* value is not zero, and the resolved global default's field when it is zero.
C3_EnabledOverrideFillsZeroFields ==
    RateLimitResolved =>
        \A k \in Kinds :
            GivenOverride(k, TRUE) =>
                /\ CfgRL[k].ptr # "nil"
                /\ \A f \in RateFields :
                      Effective(k)[f] = IF GivenRL[k].obj[f] # 0
                                        THEN GivenRL[k].obj[f]
                                        ELSE CfgRL.RateLimitConfig[f]

C3_Witness ==
    /\ RateLimitResolved
    /\ \E k \in Kinds :
          /\ GivenOverride(k, TRUE)
          /\ GivenRL[k].obj.CloudProviderRateLimitQPSWrite # 0
          /\ GivenRL[k].obj.CloudProviderRateLimitBucket = 0
          /\ Effective(k).CloudProviderRateLimitQPSWrite
                # CfgRL.RateLimitConfig.CloudProviderRateLimitQPSWrite
          /\ Effective(k).CloudProviderRateLimitBucket
                = CfgRL.RateLimitConfig.CloudProviderRateLimitBucket

\* C4 as claimed: a write QPS / write bucket left at zero ends equal to the same
\* policy's resolved read QPS / read bucket, for the global default and for every
\* enabled override.
C4_WriteInheritsOwnRead ==
    RateLimitResolved =>
        /\ GivenRL.RateLimitConfig.CloudProviderRateLimitQPSWrite = 0 =>
              CfgRL.RateLimitConfig.CloudProviderRateLimitQPSWrite
                 = CfgRL.RateLimitConfig.CloudProviderRateLimitQPS
        /\ GivenRL.RateLimitConfig.CloudProviderRateLimitBucketWrite = 0 =>
              CfgRL.RateLimitConfig.CloudProviderRateLimitBucketWrite
                 = CfgRL.RateLimitConfig.CloudProviderRateLimitBucket
        /\ \A k \in Kinds :
              GivenOverride(k, TRUE) =>
                 /\ GivenRL[k].obj.CloudProviderRateLimitQPSWrite = 0 =>
                       Effective(k).CloudProviderRateLimitQPSWrite
                          = Effective(k).CloudProviderRateLimitQPS
                 /\ GivenRL[k].obj.CloudProviderRateLimitBucketWrite = 0 =>
                       Effective(k).CloudProviderRateLimitBucketWrite
                          = Effective(k).CloudProviderRateLimitBucket

\* C4 (amended): a global write QPS / write bucket left at zero ends as the value of
\* RATE_LIMIT_WRITE_QPS / RATE_LIMIT_WRITE_BUCKETS when that variable is set, and as
\* the global default's resolved read QPS / read bucket when it is not; a write QPS /
\* write bucket left at zero in an enabled override ends as the resolved global
\* default's write QPS / write bucket (not as the override's own read value).
C4_WriteDefaults ==
    RateLimitResolved =>
        /\ GivenRL.RateLimitConfig.CloudProviderRateLimitQPSWrite = 0 =>
              CfgRL.RateLimitConfig.CloudProviderRateLimitQPSWrite
                 = IF Getenv(env, rateLimitWriteQPSEnvVar) # <<>>
                   THEN ParseFloat(Getenv(env, rateLimitWriteQPSEnvVar)).val
                   ELSE CfgRL.RateLimitConfig.CloudProviderRateLimitQPS
        /\ GivenRL.RateLimitConfig.CloudProviderRateLimitBucketWrite = 0 =>
              CfgRL.RateLimitConfig.CloudProviderRateLimitBucketWrite
                 = IF Getenv(env, rateLimitWriteBucketsEnvVar) # <<>>
                   THEN ParseInt(Getenv(env, rateLimitWriteBucketsEnvVar)).val
                   ELSE CfgRL.RateLimitConfig.CloudProviderRateLimitBucket
        /\ \A k \in Kinds :
              GivenOverride(k, TRUE) =>
                 /\ GivenRL[k].obj.CloudProviderRateLimitQPSWrite = 0 =>
                       Effective(k).CloudProviderRateLimitQPSWrite
                          = CfgRL.RateLimitConfig.CloudProviderRateLimitQPSWrite
                 /\ GivenRL[k].obj.CloudProviderRateLimitBucketWrite = 0 =>
                       Effective(k).CloudProviderRateLimitBucketWrite
                          = CfgRL.RateLimitConfig.CloudProviderRateLimitBucketWrite

\* The global write fields were left at zero with a global read QPS supplied, and an
\* enabled override with its own read QPS left its write QPS at zero.
C4_Witness ==
    /\ RateLimitResolved
    /\ GivenRL.RateLimitConfig.CloudProviderRateLimitQPSWrite = 0
    /\ GivenRL.RateLimitConfig.CloudProviderRateLimitQPS # 0
    /\ CfgRL.RateLimitConfig.CloudProviderRateLimitQPSWrite
          = GivenRL.RateLimitConfig.CloudProviderRateLimitQPS
    /\ \E k \in Kinds :
          /\ GivenOverride(k, TRUE)
          /\ GivenRL[k].obj.CloudProviderRateLimitQPS # 0
          /\ GivenRL[k].obj.CloudProviderRateLimitQPSWrite = 0
          /\ Effective(k).CloudProviderRateLimitQPSWrite
                # Effective(k).CloudProviderRateLimitQPS

\* C5 as claimed: after resolution without error every kind has a policy, none of
\* whose four numeric fields is zero.
C5_NoFieldLeftUnset ==
    RateLimitResolved =>
        \A k \in Kinds :
            /\ CfgRL[k].ptr # "nil"
            /\ \A f \in RateFields : Effective(k)[f] # 0

\* No rate limit environment variable that is set holds a zero.
NoZeroInRateLimitEnv ==
    /\ ParseFloat(Getenv(env, rateLimitReadQPSEnvVar)).val # 0
          \/ Getenv(env, rateLimitReadQPSEnvVar) = <<>>
    /\ ParseInt(Getenv(env, rateLimitReadBucketsEnvVar)).val # 0
          \/ Getenv(env, rateLimitReadBucketsEnvVar) = <<>>
    /\ ParseFloat(Getenv(env, rateLimitWriteQPSEnvVar)).val # 0
          \/ Getenv(env, rateLimitWriteQPSEnvVar) = <<>>
    /\ ParseInt(Getenv(env, rateLimitWriteBucketsEnvVar)).val # 0
          \/ Getenv(env, rateLimitWriteBucketsEnvVar) = <<>>

\* C5 (amended): after resolution without error every kind has a policy; the policy
\* of a kind whose override is disabled has all four numeric fields at zero; the
\* policy of every other kind (no override, or an enabled one) has none of the four
\* at zero, provided no rate limit environment variable that is set holds a zero.
C5_PopulatedUnlessDisabled ==
    RateLimitResolved =>
        \A k \in Kinds :
            /\ CfgRL[k].ptr # "nil"
            /\ GivenOverride(k, FALSE) => \A f \in RateFields : Effective(k)[f] = 0
            /\ (~GivenOverride(k, FALSE) /\ NoZeroInRateLimitEnv) =>
                  \A f \in RateFields : Effective(k)[f] # 0

\* Nothing was supplied for the global default, one kind has an enabled override
\* with one field set, another kind has none: all their fields are populated.
C5_Witness ==
    /\ RateLimitResolved
    /\ GivenRL.RateLimitConfig = ZeroRateLimitConfig
    /\ NoZeroInRateLimitEnv
    /\ \E k, l \in Kinds :
          /\ GivenOverride(k, TRUE)
          /\ GivenRL[l].ptr = "nil"
          /\ \E f \in RateFields : GivenRL[k].obj[f] = 0
          /\ \A f \in RateFields : Effective(k)[f] # 0 /\ Effective(l)[f] # 0

----------------------------------------------------------------------------
(* Config.validate.                                                         *)

\* The VM types (constants of the package, declared beside this file).
vmTypeVMSS == <<"v", "m", "s", "s">>
vmTypeStandard == <<"s", "t", "a", "n", "d", "a", "r", "d">>

authMethodPrincipal == <<"p", "r", "i", "n", "c", "i", "p", "a", "l">>
authMethodCLI == <<"c", "l", "i">>

\* Mutants of validate.
\* (a) the return for managed identity is missing.
validate_NoManagedIdentityReturn(c) ==
    IF c.ResourceGroup = <<>> THEN "resource group not set"
    ELSE IF c.VMType = vmTypeStandard /\ c.Deployment = <<>> THEN "deployment not set"
    ELSE IF c.VMType = vmTypeStandard /\ c.DeploymentParameters = {}
         THEN "deploymentParameters not set"
    ELSE IF c.SubscriptionID = <<>> THEN "subscription ID not set"
    ELSE IF c.TenantID = <<>> THEN "tenant ID not set"
    ELSE IF c.AuthMethod \in {<<>>, authMethodPrincipal} /\ c.AADClientID = <<>>
         THEN "ARM Client ID not set"
    ELSE IF c.AuthMethod \notin {<<>>, authMethodPrincipal, authMethodCLI}
         THEN "unsupported authorization method"
    ELSE IF c.CloudProviderBackoff /\ c.CloudProviderBackoffRetries = 0
         THEN "Cloud provider backoff is enabled but retries are not set"
    ELSE NoErr

\* (b) the tenant id is checked before the subscription id.
validate_TenantFirst(c) ==
    IF c.ResourceGroup = <<>> THEN "resource group not set"
    ELSE IF c.VMType = vmTypeStandard /\ c.Deployment = <<>> THEN "deployment not set"
    ELSE IF c.VMType = vmTypeStandard /\ c.DeploymentParameters = {}
         THEN "deploymentParameters not set"
    ELSE IF ~c.UseManagedIdentityExtension /\ c.TenantID = <<>> THEN "tenant ID not set"
    ELSE IF c.SubscriptionID = <<>> THEN "subscription ID not set"
    ELSE IF c.UseManagedIdentityExtension THEN NoErr
    ELSE IF c.AuthMethod \in {<<>>, authMethodPrincipal} /\ c.AADClientID = <<>>
         THEN "ARM Client ID not set"
    ELSE IF c.AuthMethod \notin {<<>>, authMethodPrincipal, authMethodCLI}
         THEN "unsupported authorization method"
    ELSE IF c.CloudProviderBackoff /\ c.CloudProviderBackoffRetries = 0
         THEN "Cloud provider backoff is enabled but retries are not set"
    ELSE NoErr

\* Mutant of validate: the subscription id is not checked.
validate_NoSubscriptionRule(c) ==
    IF c.ResourceGroup = <<>> THEN "resource group not set"
    ELSE IF c.VMType = vmTypeStandard /\ c.Deployment = <<>> THEN "deployment not set"
    ELSE IF c.VMType = vmTypeStandard /\ c.DeploymentParameters = {}
         THEN "deploymentParameters not set"
    ELSE IF c.UseManagedIdentityExtension THEN NoErr
    ELSE IF c.TenantID = <<>> THEN "tenant ID not set"
    ELSE IF c.AuthMethod \in {<<>>, authMethodPrincipal} /\ c.AADClientID = <<>>
         THEN "ARM Client ID not set"
    ELSE IF c.AuthMethod \notin {<<>>, authMethodPrincipal, authMethodCLI}
         THEN "unsupported authorization method"
    ELSE IF c.CloudProviderBackoff /\ c.CloudProviderBackoffRetries = 0
         THEN "Cloud provider backoff is enabled but retries are not set"
    ELSE NoErr

\* Lines 513-556: the error validate returns (NoErr: nil).
validate(c) ==
    IF c.ResourceGroup = <<>> THEN "resource group not set"
    ELSE IF c.VMType = vmTypeStandard /\ c.Deployment = <<>> THEN "deployment not set"
    ELSE IF c.VMType = vmTypeStandard /\ c.DeploymentParameters = {}
         THEN "deploymentParameters not set"
    ELSE IF c.SubscriptionID = <<>> THEN "subscription ID not set"
    ELSE IF c.UseManagedIdentityExtension THEN NoErr
    ELSE IF c.TenantID = <<>> THEN "tenant ID not set"
    ELSE IF c.AuthMethod \in {<<>>, authMethodPrincipal} /\ c.AADClientID = <<>>
         THEN "ARM Client ID not set"
    ELSE IF c.AuthMethod \notin {<<>>, authMethodPrincipal, authMethodCLI}
         THEN "unsupported authorization method"
    ELSE IF c.CloudProviderBackoff /\ c.CloudProviderBackoffRetries = 0
         THEN "Cloud provider backoff is enabled but retries are not set"
    ELSE NoErr

\* Inputs of validate: every combination of the fields it reads.
MaxRetries == 1

ValidateInputs ==
    [ResourceGroup : {<<>>, <<"r", "g">>},
     VMType : {<<>>, vmTypeVMSS, vmTypeStandard},
     Deployment : {<<>>, <<"d">>},
     DeploymentParameters : {{}, {"p"}},
     SubscriptionID : {<<>>, <<"s">>},
     UseManagedIdentityExtension : BOOLEAN,
     TenantID : {<<>>, <<"t">>},
     AuthMethod : {<<>>, authMethodPrincipal, authMethodCLI, <<"m", "s", "i">>},
     AADClientID : {<<>>, <<"c">>},
     CloudProviderBackoff : BOOLEAN,
     CloudProviderBackoffRetries : 0..MaxRetries]

InitValidate ==
    /\ \E in \in ValidateInputs :
          cfg = [f \in DOMAIN ZeroConfig |-> IF f \in DOMAIN in THEN in[f] ELSE ZeroConfig[f]]
    /\ given = cfg
    /\ env = <<>>
    /\ configReader = [nil |-> TRUE, fault |-> "none", body |-> <<>>]
    /\ imds = [ok |-> TRUE, val |-> <<>>]
    /\ deployFile = [ok |-> TRUE, val |-> {}]
    /\ pc = "validate"
    /\ err = NoErr
    /\ ret = NilConfig

\* A call of cfg.validate().
CallValidate ==
    /\ pc = "validate"
    /\ err' = validate(cfg)
    /\ pc' = "returned"
    /\ UNCHANGED <<configReader, env, imds, deployFile, given, cfg, ret>>

SpecValidate == InitValidate /\ [][CallValidate]_vars

----------------------------------------------------------------------------
(* Claims C8, C9: the validator, under SpecValidate.                        *)

\* Rules 1-3 of the validator hold of c.
Rules1To3(c) ==
    /\ c.ResourceGroup # <<>>
    /\ c.VMType = vmTypeStandard => c.Deployment # <<>> /\ c.DeploymentParameters # {}
    /\ c.SubscriptionID # <<>>

\* C8: with managed identity enabled and the resource group, the deployment name and
\* parameters (for the standard VM type) and the subscription id set, validate
\* returns nil, whatever the tenant id, the authentication method, the client id, the
\* backoff flag and the backoff retries are.
C8_ManagedIdentitySkipsIdentityRules ==
    (pc = "returned" /\ cfg.UseManagedIdentityExtension /\ Rules1To3(cfg)) => err = NoErr

C8_Witness ==
    /\ pc = "returned"
    /\ cfg.UseManagedIdentityExtension
    /\ Rules1To3(cfg)
    /\ cfg.VMType = vmTypeStandard
    /\ cfg.TenantID = <<>>
    /\ cfg.AADClientID = <<>>
    /\ cfg.AuthMethod \notin {<<>>, authMethodPrincipal, authMethodCLI}
    /\ cfg.CloudProviderBackoff
    /\ cfg.CloudProviderBackoffRetries = 0
    /\ err = NoErr

\* The validator's rules in the order the claim gives them: what violates each, the
\* error it gives, and whether it ends validation with success.
ValidateRules(c) ==
    <<[bad |-> c.ResourceGroup = <<>>, stop |-> FALSE, err |-> "resource group not set"],
      [bad |-> c.VMType = vmTypeStandard /\ c.Deployment = <<>>, stop |-> FALSE,
       err |-> "deployment not set"],
      [bad |-> c.VMType = vmTypeStandard /\ c.DeploymentParameters = {}, stop |-> FALSE,
       err |-> "deploymentParameters not set"],
      [bad |-> c.SubscriptionID = <<>>, stop |-> FALSE, err |-> "subscription ID not set"],
      [bad |-> FALSE, stop |-> c.UseManagedIdentityExtension, err |-> NoErr],
      [bad |-> c.TenantID = <<>>, stop |-> FALSE, err |-> "tenant ID not set"],
      [bad |-> c.AuthMethod \in {<<>>, authMethodPrincipal} /\ c.AADClientID = <<>>,
       stop |-> FALSE, err |-> "ARM Client ID not set"],
      [bad |-> c.AuthMethod \notin {<<>>, authMethodPrincipal, authMethodCLI},
       stop |-> FALSE, err |-> "unsupported authorization method"],
      [bad |-> c.CloudProviderBackoff /\ c.CloudProviderBackoffRetries = 0, stop |-> FALSE,
       err |-> "Cloud provider backoff is enabled but retries are not set"]>>

\* The rules of c that are violated, or that end validation.
Hits(c) == {i \in 1..Len(ValidateRules(c)) : ValidateRules(c)[i].bad \/ ValidateRules(c)[i].stop}

FirstHit(c) == CHOOSE i \in Hits(c) : \A j \in Hits(c) : i <= j

\* C9: validate returns the error of the earliest violated rule in the order resource
\* group, deployment name, deployment parameters, subscription id, managed identity
\* (which ends validation with success), tenant id, authentication method, backoff
\* retries; it returns nil exactly when no rule before such an end is violated.
C9_FirstViolatedRuleWins ==
    pc = "returned" =>
        /\ err = IF Hits(cfg) = {} THEN NoErr ELSE ValidateRules(cfg)[FirstHit(cfg)].err
        /\ err = NoErr <=> (Hits(cfg) = {} \/ ValidateRules(cfg)[FirstHit(cfg)].stop)

\* Three rules are violated at once and the error is the earliest one's.
C9_Witness ==
    /\ pc = "returned"
    /\ cfg.ResourceGroup # <<>>
    /\ cfg.VMType = vmTypeStandard
    /\ cfg.Deployment # <<>>
    /\ cfg.DeploymentParameters = {}
    /\ cfg.SubscriptionID = <<>>
    /\ ~cfg.UseManagedIdentityExtension
    /\ cfg.TenantID = <<>>
    /\ err = "deploymentParameters not set"

----------------------------------------------------------------------------
(* BuildAzureConfig: string helpers.                                        *)

\* strings.TrimSpace(s)
RECURSIVE TrimLeft(_)
TrimLeft(s) == IF s # <<>> /\ s[1] \in Space THEN TrimLeft(Tail(s)) ELSE s

RECURSIVE TrimRight(_)
TrimRight(s) == IF s # <<>> /\ s[Len(s)] \in Space
                THEN TrimRight(SubSeq(s, 1, Len(s) - 1)) ELSE s

stringsTrimSpace(s) == TrimRight(TrimLeft(s))

Upper == <<"A", "B", "C", "D", "E", "F", "G", "H", "I", "J", "K", "L", "M",
           "N", "O", "P", "Q", "R", "S", "T", "U", "V", "W", "X", "Y", "Z">>
Lower == <<"a", "b", "c", "d", "e", "f", "g", "h", "i", "j", "k", "l", "m",
           "n", "o", "p", "q", "r", "s", "t", "u", "v", "w", "x", "y", "z">>

\* strings.ToLower(s)
ToLower(s) ==
    [i \in 1..Len(s) |->
        IF \E j \in 1..Len(Upper) : Upper[j] = s[i]
        THEN Lower[CHOOSE j \in 1..Len(Upper) : Upper[j] = s[i]]
        ELSE s[i]]

----------------------------------------------------------------------------
(* BuildAzureConfig: the structured payload (lines 162-170).                *)

\* The json tag of each field of Config that the payload may carry, and the tags
\* of the embedded azclients.RateLimitConfig.
JSONField ==
    [cloud |-> "Cloud", location |-> "Location", tenantId |-> "TenantID",
     subscriptionId |-> "SubscriptionID", clusterName |-> "ClusterName",
     resourceGroup |-> "ResourceGroup", clusterResourceGroup |-> "ClusterResourceGroup",
     vmType |-> "VMType", armBaseURLForAPClient |-> "ARMBaseURLForAPClient",
     authMethod |-> "AuthMethod", aadClientId |-> "AADClientID",
     aadClientSecret |-> "AADClientSecret", aadClientCertPath |-> "AADClientCertPath",
     aadClientCertPassword |-> "AADClientCertPassword",
     aadFederatedTokenFile |-> "AADFederatedTokenFile",
     useManagedIdentityExtension |-> "UseManagedIdentityExtension",
     useWorkloadIdentityExtension |-> "UseWorkloadIdentityExtension",
     userAssignedIdentityID |-> "UserAssignedIdentityID",
     deployment |-> "Deployment", deploymentParameters |-> "DeploymentParameters",
     vmssCacheTTL |-> "VmssCacheTTL", vmssVmsCacheTTL |-> "VmssVmsCacheTTL",
     vmssVmsCacheJitter |-> "VmssVmsCacheJitter",
     getVmssSizeRefreshPeriod |-> "GetVmssSizeRefreshPeriod",
     maxDeploymentsCount |-> "MaxDeploymentsCount",
     cloudProviderBackoff |-> "CloudProviderBackoff",
     cloudProviderBackoffRetries |-> "CloudProviderBackoffRetries",
     cloudProviderBackoffExponent |-> "CloudProviderBackoffExponent",
     cloudProviderBackoffDuration |-> "CloudProviderBackoffDuration",
     cloudProviderBackoffJitter |-> "CloudProviderBackoffJitter",
     enableForceDelete |-> "EnableForceDelete",
     enableDynamicInstanceList |-> "EnableDynamicInstanceList",
     enableVmssFlex |-> "EnableVmssFlex"]

JSONRateLimitField ==
    [cloudProviderRateLimit |-> "CloudProviderRateLimit",
     cloudProviderRateLimitQPS |-> "CloudProviderRateLimitQPS",
     cloudProviderRateLimitBucket |-> "CloudProviderRateLimitBucket",
     cloudProviderRateLimitQPSWrite |-> "CloudProviderRateLimitQPSWrite",
     cloudProviderRateLimitBucketWrite |-> "CloudProviderRateLimitBucketWrite"]

JSONOverrideField ==
    [interfaceRateLimit |-> "InterfaceRateLimit",
     virtualMachineRateLimit |-> "VirtualMachineRateLimit",
     storageAccountRateLimit |-> "StorageAccountRateLimit",
     diskRateLimit |-> "DiskRateLimit",
     virtualMachineScaleSetRateLimit |-> "VirtualMachineScaleSetRateLimit",
     kubernetesServiceRateLimit |-> "KubernetesServiceRateLimit"]

\* json.Unmarshal of a rate limit object: the keys it carries, over the zero value.
UnmarshalRateLimit(object, zero) ==
    [f \in DOMAIN zero |->
        IF \E key \in DOMAIN object : key \in DOMAIN JSONRateLimitField
                                      /\ JSONRateLimitField[key] = f
        THEN object[CHOOSE key \in DOMAIN object : key \in DOMAIN JSONRateLimitField
                                                   /\ JSONRateLimitField[key] = f]
        ELSE zero[f]]

\* json.Unmarshal(body, cfg) into cfg = &Config{}, for a body that is a well-typed
\* JSON object: each key the body carries sets its field, the others keep the zero
\* value; an override object is allocated for each override key.
Unmarshal(body) ==
    LET plain == [f \in DOMAIN ZeroConfig |->
                    IF \E key \in DOMAIN body : key \in DOMAIN JSONField /\ JSONField[key] = f
                    THEN body[CHOOSE key \in DOMAIN body :
                                 key \in DOMAIN JSONField /\ JSONField[key] = f]
                    ELSE ZeroConfig[f]]
        rl == [f \in DOMAIN ZeroCloudProviderRateLimitConfig |->
                 IF f = "RateLimitConfig" THEN UnmarshalRateLimit(body, ZeroRateLimitConfig)
                 ELSE IF \E key \in DOMAIN body : key \in DOMAIN JSONOverrideField
                                                  /\ JSONOverrideField[key] = f
                 THEN ObjPtr(UnmarshalRateLimit(
                         body[CHOOSE key \in DOMAIN body : key \in DOMAIN JSONOverrideField
                                                           /\ JSONOverrideField[key] = f],
                         ZeroRateLimitConfig))
                 ELSE NilPtr]
    IN  [plain EXCEPT !.CloudProviderRateLimitConfig = rl]

\* Lines 162-170. configReader.fault says whether reading or parsing the body fails.
PopulateFromReader(reader) ==
    IF reader.fault = "read" THEN [cfg |-> ZeroConfig, err |-> "failed to read config"]
    ELSE IF reader.fault = "syntax"
    THEN [cfg |-> ZeroConfig, err |-> "failed to unmarshal config body"]
    ELSE [cfg |-> Unmarshal(reader.body), err |-> NoErr]

----------------------------------------------------------------------------
(* BuildAzureConfig: the environment (lines 172-321).                       *)

backoffRetriesDefault == 6
backoffExponentDefault == 15
backoffDurationDefault == 5
backoffJitterDefault == 10
VmssSizeRefreshPeriodDefault == 30
dynamicInstanceListDefault == FALSE
enableVmssFlexDefault == FALSE

\* The strconv parser a place in the code calls.
Parse(parse, s) ==
    CASE parse = "ParseBool" -> ParseBool(s)
      [] parse = "ParseInt" -> ParseInt(s)
      [] parse = "ParseFloat" -> ParseFloat(s)

\* if s := os.Getenv(name); s != "" { cfg.field, err = parse(s); if err != nil
\* { return nil, ... } }: r is the configuration so far and the error returned so
\* far; nothing runs after a return.
SetParsed(r, e, name, field, parse, msg) ==
    LET s == Getenv(e, name)
    IN  IF r.err # NoErr \/ s = <<>> THEN r
        ELSE IF ~Parse(parse, s).ok THEN [cfg |-> r.cfg, err |-> msg]
        ELSE [cfg |-> [r.cfg EXCEPT ![field] = Parse(parse, s).val], err |-> NoErr]

\* The same with an else branch that assigns a default.
SetParsedOrDefault(r, e, name, field, parse, msg, default) ==
    IF r.err # NoErr THEN r
    ELSE IF Getenv(e, name) = <<>> THEN [cfg |-> [r.cfg EXCEPT ![field] = default], err |-> NoErr]
    ELSE SetParsed(r, e, name, field, parse, msg)

\* Lines 558-575. md is the answer of the instance metadata service.
getSubscriptionIdFromInstanceMetadata(e, md) ==
    IF LookupEnv(e, "ARM_SUBSCRIPTION_ID").present
    THEN [val |-> LookupEnv(e, "ARM_SUBSCRIPTION_ID").val, err |-> NoErr]
    ELSE IF ~md.ok THEN [val |-> <<>>, err |-> "instance metadata service failed"]
    ELSE [val |-> md.val, err |-> NoErr]

\* Lines 172-188.
EnvStrings(e) ==
    [ZeroConfig EXCEPT
        !.Cloud = Getenv(e, "ARM_CLOUD"),
        !.Location = Getenv(e, "LOCATION"),
        !.ResourceGroup = Getenv(e, "ARM_RESOURCE_GROUP"),
        !.TenantID = IF Getenv(e, "AZURE_TENANT_ID") # <<>>
                     THEN Getenv(e, "AZURE_TENANT_ID") ELSE Getenv(e, "ARM_TENANT_ID"),
        !.AADClientID = IF Getenv(e, "AZURE_CLIENT_ID") # <<>>
                        THEN Getenv(e, "AZURE_CLIENT_ID") ELSE Getenv(e, "ARM_CLIENT_ID"),
        !.AADFederatedTokenFile = Getenv(e, "AZURE_FEDERATED_TOKEN_FILE"),
        !.AADClientSecret = Getenv(e, "ARM_CLIENT_SECRET"),
        !.VMType = ToLower(Getenv(e, "ARM_VM_TYPE")),
        !.AADClientCertPath = Getenv(e, "ARM_CLIENT_CERT_PATH"),
        !.AADClientCertPassword = Getenv(e, "ARM_CLIENT_CERT_PASSWORD"),
        !.Deployment = Getenv(e, "ARM_DEPLOYMENT")]

\* Lines 190-194.
EnvSubscription(c, e, md) ==
    LET sub == getSubscriptionIdFromInstanceMetadata(e, md)
    IN  IF sub.err # NoErr THEN [cfg |-> c, err |-> sub.err]
        ELSE [cfg |-> [c EXCEPT !.SubscriptionID = sub.val], err |-> NoErr]

ConflictingIdentity ==
    "you can not combine both managed identity and workload identity as an authentication mechanism"

\* Lines 196-219.
EnvIdentity(r, e) ==
    LET r1 == SetParsed(r, e, "ARM_USE_MANAGED_IDENTITY_EXTENSION",
                        "UseManagedIdentityExtension", "ParseBool", "strconv.ParseBool")
        r2 == SetParsed(r1, e, "ARM_USE_WORKLOAD_IDENTITY_EXTENSION",
                        "UseWorkloadIdentityExtension", "ParseBool", "strconv.ParseBool")
    IN  IF r2.err # NoErr THEN r2
        ELSE IF r2.cfg.UseManagedIdentityExtension /\ r2.cfg.UseWorkloadIdentityExtension
        THEN [cfg |-> r2.cfg, err |-> ConflictingIdentity]
        ELSE IF Getenv(e, "ARM_USER_ASSIGNED_IDENTITY_ID") # <<>>
        THEN [cfg |-> [r2.cfg EXCEPT !.UserAssignedIdentityID =
                                         Getenv(e, "ARM_USER_ASSIGNED_IDENTITY_ID")],
              err |-> NoErr]
        ELSE r2

\* Lines 221-247.
EnvCaches(r, e) ==
    LET r1 == SetParsed(r, e, "AZURE_VMSS_CACHE_TTL", "VmssCacheTTL", "ParseInt",
                        "failed to parse AZURE_VMSS_CACHE_TTL")
        r2 == SetParsed(r1, e, "AZURE_VMSS_VMS_CACHE_TTL", "VmssVmsCacheTTL", "ParseInt",
                        "failed to parse AZURE_VMSS_VMS_CACHE_TTL")
        r3 == SetParsed(r2, e, "AZURE_VMSS_VMS_CACHE_JITTER", "VmssVmsCacheJitter", "ParseInt",
                        "failed to parse AZURE_VMSS_VMS_CACHE_JITTER")
    IN  SetParsed(r3, e, "AZURE_MAX_DEPLOYMENT_COUNT", "MaxDeploymentsCount", "ParseInt",
                  "failed to parse AZURE_MAX_DEPLOYMENT_COUNT")

\* Lines 249-281.
EnvToggles(r, e) ==
    LET r1 == SetParsed(r, e, "ENABLE_BACKOFF", "CloudProviderBackoff", "ParseBool",
                        "failed to parse ENABLE_BACKOFF")
        r2 == SetParsedOrDefault(r1, e, "AZURE_ENABLE_DYNAMIC_INSTANCE_LIST",
                                 "EnableDynamicInstanceList", "ParseBool",
                                 "failed to parse AZURE_ENABLE_DYNAMIC_INSTANCE_LIST",
                                 dynamicInstanceListDefault)
        r3 == SetParsedOrDefault(r2, e, "AZURE_GET_VMSS_SIZE_REFRESH_PERIOD",
                                 "GetVmssSizeRefreshPeriod", "ParseInt",
                                 "failed to parse AZURE_GET_VMSS_SIZE_REFRESH_PERIOD",
                                 VmssSizeRefreshPeriodDefault)
    IN  SetParsedOrDefault(r3, e, "AZURE_ENABLE_VMSS_FLEX", "EnableVmssFlex", "ParseBool",
                           "failed to parse AZURE_ENABLE_VMSS_FLEX", enableVmssFlexDefault)

\* Mutant of EnvBackoff: the jitter is left at zero when BACKOFF_JITTER is unset.
EnvBackoff_NoJitterDefault(r, e) ==
    IF r.err # NoErr \/ ~r.cfg.CloudProviderBackoff THEN r
    ELSE LET r1 == SetParsedOrDefault(r, e, "BACKOFF_RETRIES",
                                      "CloudProviderBackoffRetries", "ParseInt",
                                      "failed to parse BACKOFF_RETRIES",
                                      backoffRetriesDefault)
             r2 == SetParsedOrDefault(r1, e, "BACKOFF_EXPONENT",
                                      "CloudProviderBackoffExponent", "ParseFloat",
                                      "failed to parse BACKOFF_EXPONENT",
                                      backoffExponentDefault)
             r3 == SetParsedOrDefault(r2, e, "BACKOFF_DURATION",
                                      "CloudProviderBackoffDuration", "ParseInt",
                                      "failed to parse BACKOFF_DURATION",
                                      backoffDurationDefault)
         IN  SetParsed(r3, e, "BACKOFF_JITTER", "CloudProviderBackoffJitter",
                       "ParseFloat", "failed to parse BACKOFF_JITTER")

\* Lines 283-321.
EnvBackoff(r, e) ==
    IF r.err # NoErr \/ ~r.cfg.CloudProviderBackoff THEN r
    ELSE LET r1 == SetParsedOrDefault(r, e, "BACKOFF_RETRIES",
                                      "CloudProviderBackoffRetries", "ParseInt",
                                      "failed to parse BACKOFF_RETRIES",
                                      backoffRetriesDefault)
             r2 == SetParsedOrDefault(r1, e, "BACKOFF_EXPONENT",
                                      "CloudProviderBackoffExponent", "ParseFloat",
                                      "failed to parse BACKOFF_EXPONENT",
                                      backoffExponentDefault)
             r3 == SetParsedOrDefault(r2, e, "BACKOFF_DURATION",
                                      "CloudProviderBackoffDuration", "ParseInt",
                                      "failed to parse BACKOFF_DURATION",
                                      backoffDurationDefault)
         IN  SetParsedOrDefault(r3, e, "BACKOFF_JITTER", "CloudProviderBackoffJitter",
                                "ParseFloat", "failed to parse BACKOFF_JITTER",
                                backoffJitterDefault)

\* Lines 172-321: the else branch of BuildAzureConfig.
PopulateFromEnv(e, md) ==
    EnvBackoff(EnvToggles(EnvCaches(EnvIdentity(EnvSubscription(EnvStrings(e), e, md), e), e), e), e)

----------------------------------------------------------------------------
(* BuildAzureConfig: after the population (lines 324-373).                  *)

\* Mutant of EnvAlways: a field is overwritten only when its variable is not empty.
EnvAlways_KeepUnlessSet(c, e) ==
    [c EXCEPT !.ClusterName = IF Getenv(e, "CLUSTER_NAME") # <<>>
                              THEN Getenv(e, "CLUSTER_NAME") ELSE @,
              !.ClusterResourceGroup = IF Getenv(e, "ARM_CLUSTER_RESOURCE_GROUP") # <<>>
                                       THEN Getenv(e, "ARM_CLUSTER_RESOURCE_GROUP") ELSE @,
              !.ARMBaseURLForAPClient = IF Getenv(e, "ARM_BASE_URL_FOR_AP_CLIENT") # <<>>
                                        THEN Getenv(e, "ARM_BASE_URL_FOR_AP_CLIENT") ELSE @]

\* Lines 325-327.
EnvAlways(c, e) ==
    [c EXCEPT !.ClusterName = Getenv(e, "CLUSTER_NAME"),
              !.ClusterResourceGroup = Getenv(e, "ARM_CLUSTER_RESOURCE_GROUP"),
              !.ARMBaseURLForAPClient = Getenv(e, "ARM_BASE_URL_FOR_AP_CLIENT")]

\* The fields Config.TrimSpace trims (lines 498-510).
TrimmedFields == {"Cloud", "Location", "TenantID", "SubscriptionID", "ClusterName",
                  "ResourceGroup", "ClusterResourceGroup", "VMType", "AADClientID",
                  "AADClientSecret", "AADClientCertPath", "AADClientCertPassword",
                  "Deployment"}

\* Lines 497-511: Config.TrimSpace.
TrimSpace(c) ==
    [f \in DOMAIN c |-> IF f \in TrimmedFields THEN stringsTrimSpace(c[f]) ELSE c[f]]

\* Lines 331-348.
RateLimits(c, e) ==
    LET r0 == [cfg |-> c, err |-> NoErr]
        s1 == Getenv(e, "CLOUD_PROVIDER_RATE_LIMIT")
        r1 == IF s1 = <<>> THEN r0
              ELSE IF ~ParseBool(s1).ok
              THEN [cfg |-> c, err |-> "failed to parse CLOUD_PROVIDER_RATE_LIMIT"]
              ELSE [cfg |-> [c EXCEPT !.CloudProviderRateLimitConfig.RateLimitConfig
                                          .CloudProviderRateLimit = ParseBool(s1).val],
                    err |-> NoErr]
        r2 == SetParsed(r1, e, "AZURE_ENABLE_FORCE_DELETE", "EnableForceDelete", "ParseBool",
                        "failed to parse AZURE_ENABLE_FORCE_DELETE")
        rl == initializeCloudProviderRateLimitConfig(r2.cfg.CloudProviderRateLimitConfig, e)
    IN  IF r2.err # NoErr THEN r2
        ELSE [cfg |-> [r2.cfg EXCEPT !.CloudProviderRateLimitConfig = rl.config],
              err |-> rl.err]

\* The retention count of deployments (a constant of the package, declared beside
\* this file).
defaultMaxDeploymentsCount == 10

\* Mutant of Defaults: a failure of readDeploymentParameters is not returned.
Defaults_FailureIgnored(c, file) ==
    LET c1 == IF c.VMType = <<>> THEN [c EXCEPT !.VMType = vmTypeVMSS] ELSE c
        read == c1.VMType = vmTypeStandard /\ c1.DeploymentParameters = {}
        c2 == IF read /\ file.ok THEN [c1 EXCEPT !.DeploymentParameters = file.val] ELSE c1
        c3 == IF c2.MaxDeploymentsCount = 0
              THEN [c2 EXCEPT !.MaxDeploymentsCount = defaultMaxDeploymentsCount] ELSE c2
    IN  [cfg |-> c3, err |-> NoErr]

\* Lines 350-368. file is the answer of readDeploymentParameters.
Defaults(c, file) ==
    LET c1 == IF c.VMType = <<>> THEN [c EXCEPT !.VMType = vmTypeVMSS] ELSE c
        read == c1.VMType = vmTypeStandard /\ c1.DeploymentParameters = {}
        c2 == IF read /\ file.ok THEN [c1 EXCEPT !.DeploymentParameters = file.val] ELSE c1
        c3 == IF c2.MaxDeploymentsCount = 0
              THEN [c2 EXCEPT !.MaxDeploymentsCount = defaultMaxDeploymentsCount] ELSE c2
    IN  IF read /\ ~file.ok THEN [cfg |-> c1, err |-> "readDeploymentParameters failed"]
        ELSE [cfg |-> c3, err |-> NoErr]

\* time.Second, in milliseconds.
Second == 1000

\* Lines 471-494: the Backoff of the client configuration getAzureClientConfig builds.
getAzureClientConfig(c) ==
    IF c.CloudProviderBackoff
    THEN [Steps |-> c.CloudProviderBackoffRetries,
          Factor |-> c.CloudProviderBackoffExponent,
          Duration |-> c.CloudProviderBackoffDuration * Second,
          Jitter |-> c.CloudProviderBackoffJitter]
    ELSE [Steps |-> 1, Factor |-> 0, Duration |-> 0, Jitter |-> 0]

----------------------------------------------------------------------------
(* Inputs of BuildAzureConfig: a base input under which both loading paths   *)
(* succeed, changed in at most MaxInputChanges places. A place is a key of   *)
(* the payload, an environment variable (both hold <<>> when absent and <<v>> *)
(* when present), the fault of the reader, or the answer of one of the two   *)
(* providers. Whether a reader is passed at all is chosen freely.            *)

MaxInputChanges == 2

true == <<"t", "r", "u", "e">>

BuildBaseSettings ==
    {<<<<"json", "resourceGroup">>, <<<<"r", "g">>>>>>,
     <<<<"json", "subscriptionId">>, <<<<"s", "u", "b">>>>>>,
     <<<<"json", "tenantId">>, <<<<"t", "e", "n">>>>>>,
     <<<<"json", "aadClientId">>, <<<<"i", "d">>>>>>,
     <<<<"env", "ARM_RESOURCE_GROUP">>, <<<<"R", "G">>>>>>,
     <<<<"env", "ARM_SUBSCRIPTION_ID">>, <<<<"S", "U", "B">>>>>>,
     <<<<"env", "ARM_TENANT_ID">>, <<<<"T", "E", "N">>>>>>,
     <<<<"env", "ARM_CLIENT_ID">>, <<<<"I", "D">>>>>>,
     <<<<"reader", "fault">>, "none">>,
     <<<<"imds", "answer">>, [ok |-> TRUE, val |-> <<"m", "d">>]>>,
     <<<<"file", "answer">>, [ok |-> TRUE, val |-> {"p"}]>>}

BuildChoices ==
    {\* the payload
     <<<<"json", "resourceGroup">>, <<>>>>,
     <<<<"json", "resourceGroup">>, <<<<" ", "r", "g", " ">>>>>>,
     <<<<"json", "subscriptionId">>, <<>>>>,
     <<<<"json", "tenantId">>, <<>>>>,
     <<<<"json", "tenantId">>, <<<<"t", "\t">>>>>>,
     <<<<"json", "aadClientId">>, <<>>>>,
     <<<<"json", "authMethod">>, <<authMethodCLI>>>>,
     <<<<"json", "authMethod">>, <<<<" ", "c", "l", "i">>>>>>,
     <<<<"json", "vmType">>, <<vmTypeStandard>>>>,
     <<<<"json", "vmType">>, <<<<"v", "m", "s", "s", " ">>>>>>,
     <<<<"json", "deployment">>, <<<<"d", "p">>>>>>,
     <<<<"json", "deploymentParameters">>, <<{"q"}>>>>,
     <<<<"json", "useManagedIdentityExtension">>, <<TRUE>>>>,
     <<<<"json", "useWorkloadIdentityExtension">>, <<TRUE>>>>,
     <<<<"json", "cloudProviderBackoff">>, <<TRUE>>>>,
     <<<<"json", "cloudProviderBackoffRetries">>, <<3>>>>,
     <<<<"json", "cloudProviderBackoffExponent">>, <<25>>>>,
     <<<<"json", "cloudProviderBackoffDuration">>, <<7>>>>,
     <<<<"json", "cloudProviderBackoffJitter">>, <<5>>>>,
     <<<<"json", "clusterName">>, <<<<"c", "n">>>>>>,
     <<<<"json", "clusterResourceGroup">>, <<<<"c", "g">>>>>>,
     <<<<"json", "armBaseURLForAPClient">>, <<<<"u", "r", "l">>>>>>,
     <<<<"json", "aadFederatedTokenFile">>, <<<<"f", " ">>>>>>,
     <<<<"json", "userAssignedIdentityID">>, <<<<" ", "u">>>>>>,
     <<<<"json", "location">>, <<<<" ", "l", " ">>>>>>,
     <<<<"json", "aadClientSecret">>, <<<<"s", "\n">>>>>>,
     <<<<"json", "maxDeploymentsCount">>, <<4>>>>,
     <<<<"json", "cloudProviderRateLimitQPS">>, <<20>>>>,
     <<<<"json", "diskRateLimit">>,
       <<[cloudProviderRateLimit |-> FALSE, cloudProviderRateLimitQPS |-> 990]>>>>,
     <<<<"reader", "fault">>, "read">>,
     <<<<"reader", "fault">>, "syntax">>,
     \* the environment
     <<<<"env", "ARM_RESOURCE_GROUP">>, <<>>>>,
     <<<<"env", "ARM_RESOURCE_GROUP">>, <<<<"R", "G", " ">>>>>>,
     <<<<"env", "ARM_SUBSCRIPTION_ID">>, <<>>>>,
     <<<<"env", "ARM_SUBSCRIPTION_ID">>, <<<<>>>>>>,
     <<<<"env", "ARM_TENANT_ID">>, <<>>>>,
     <<<<"env", "AZURE_TENANT_ID">>, <<<<"T", "2">>>>>>,
     <<<<"env", "ARM_CLIENT_ID">>, <<>>>>,
     <<<<"env", "AZURE_CLIENT_ID">>, <<<<"I", "2">>>>>>,
     <<<<"env", "ARM_VM_TYPE">>, <<<<"S", "t", "a", "n", "d", "a", "r", "d">>>>>>,
     <<<<"env", "ARM_DEPLOYMENT">>, <<<<"D", "P">>>>>>,
     <<<<"env", "AZURE_FEDERATED_TOKEN_FILE">>, <<<<" ", "F">>>>>>,
     <<<<"env", "ARM_USER_ASSIGNED_IDENTITY_ID">>, <<<<"U", " ">>>>>>,
     <<<<"env", "LOCATION">>, <<<<" ", "L">>>>>>,
     <<<<"env", "ARM_USE_MANAGED_IDENTITY_EXTENSION">>, <<true>>>>,
     <<<<"env", "ARM_USE_MANAGED_IDENTITY_EXTENSION">>, <<<<"y", "e", "s">>>>>>,
     <<<<"env", "ARM_USE_WORKLOAD_IDENTITY_EXTENSION">>, <<<<"1">>>>>>,
     <<<<"env", "AZURE_VMSS_CACHE_TTL">>, <<<<"6", "0">>>>>>,
     <<<<"env", "AZURE_VMSS_VMS_CACHE_TTL">>, <<<<"x">>>>>>,
     <<<<"env", "AZURE_VMSS_VMS_CACHE_JITTER">>, <<<<"1", ".", "5">>>>>>,
     <<<<"env", "AZURE_MAX_DEPLOYMENT_COUNT">>, <<<<"4">>>>>>,
     <<<<"env", "ENABLE_BACKOFF">>, <<true>>>>,
     <<<<"env", "ENABLE_BACKOFF">>, <<<<"o", "n">>>>>>,
     <<<<"env", "BACKOFF_RETRIES">>, <<<<"3">>>>>>,
     <<<<"env", "BACKOFF_RETRIES">>, <<<<"0">>>>>>,
     <<<<"env", "BACKOFF_EXPONENT">>, <<<<"2", ".", "5">>>>>>,
     <<<<"env", "BACKOFF_DURATION">>, <<<<"7">>>>>>,
     <<<<"env", "BACKOFF_JITTER">>, <<<<"x">>>>>>,
     <<<<"env", "AZURE_ENABLE_DYNAMIC_INSTANCE_LIST">>, <<true>>>>,
     <<<<"env", "AZURE_GET_VMSS_SIZE_REFRESH_PERIOD">>, <<<<"x">>>>>>,
     <<<<"env", "AZURE_ENABLE_VMSS_FLEX">>, <<<<"x">>>>>>,
     <<<<"env", "CLUSTER_NAME">>, <<<<" ", "C", "N">>>>>>,
     <<<<"env", "ARM_CLUSTER_RESOURCE_GROUP">>, <<<<"C", "G">>>>>>,
     <<<<"env", "ARM_BASE_URL_FOR_AP_CLIENT">>, <<<<"U", "R", "L", " ">>>>>>,
     <<<<"env", "CLOUD_PROVIDER_RATE_LIMIT">>, <<true>>>>,
     <<<<"env", "CLOUD_PROVIDER_RATE_LIMIT">>, <<<<"x">>>>>>,
     <<<<"env", "AZURE_ENABLE_FORCE_DELETE">>, <<true>>>>,
     <<<<"env", "AZURE_ENABLE_FORCE_DELETE">>, <<<<"x">>>>>>,
     <<<<"env", rateLimitReadQPSEnvVar>>, <<<<"x">>>>>>,
     \* the providers
     <<<<"imds", "answer">>, [ok |-> FALSE, val |-> <<>>]>>,
     <<<<"imds", "answer">>, [ok |-> TRUE, val |-> <<>>]>>,
     <<<<"file", "answer">>, [ok |-> FALSE, val |-> {}]>>,
     <<<<"file", "answer">>, [ok |-> TRUE, val |-> {}]>>}

BuildPlaces == {c[1] : c \in BuildChoices \cup BuildBaseSettings}

BuildBase ==
    [p \in BuildPlaces |->
        IF \E b \in BuildBaseSettings : b[1] = p
        THEN (CHOOSE b \in BuildBaseSettings : b[1] = p)[2]
        ELSE <<>>]

RECURSIVE BuildInputs(_)
BuildInputs(n) ==
    IF n = 0 THEN {BuildBase}
    ELSE LET less == BuildInputs(n - 1)
         IN  less \cup {[f EXCEPT ![c[1]] = c[2]] : f \in less, c \in BuildChoices}

\* The present keys (variables) of an input, with their values.
Present(in, group) ==
    [k \in {p[2] : p \in {q \in BuildPlaces : q[1] = group /\ in[q] # <<>>}} |->
        in[<<group, k>>][1]]

InitBuild ==
    /\ \E f \in BuildInputs(MaxInputChanges - 1) :
       \E c \in BuildChoices \cup {<<<<"reader", "fault">>, "none">>} :
       \E passed \in BOOLEAN :
          LET in == [f EXCEPT ![c[1]] = c[2]]
          IN  /\ configReader = [nil |-> ~passed, fault |-> in[<<"reader", "fault">>],
                                 body |-> Present(in, "json")]
              /\ env = Present(in, "env")
              /\ imds = in[<<"imds", "answer">>]
              /\ deployFile = in[<<"file", "answer">>]
    /\ cfg = ZeroConfig
    /\ given = ZeroConfig
    /\ pc = "start"
    /\ err = NoErr
    /\ ret = NilConfig

\* return nil, err
Fail(c, e) ==
    /\ cfg' = c
    /\ err' = e
    /\ ret' = NilConfig
    /\ pc' = "done"

\* Lines 162-170: the reader is not nil.
ReadConfig ==
    /\ pc = "start"
    /\ ~configReader.nil
    /\ LET r == PopulateFromReader(configReader)
       IN  IF r.err # NoErr THEN Fail(r.cfg, r.err)
           ELSE cfg' = r.cfg /\ pc' = "populated" /\ UNCHANGED <<err, ret>>
    /\ UNCHANGED <<configReader, env, imds, deployFile, given>>

\* Lines 171-322: the reader is nil.
ReadEnvironment ==
    /\ pc = "start"
    /\ configReader.nil
    /\ LET r == PopulateFromEnv(env, imds)
       IN  IF r.err # NoErr THEN Fail(r.cfg, r.err)
           ELSE cfg' = r.cfg /\ pc' = "populated" /\ UNCHANGED <<err, ret>>
    /\ UNCHANGED <<configReader, env, imds, deployFile, given>>

\* Lines 324-329.
Normalize ==
    /\ pc = "populated"
    /\ cfg' = TrimSpace(EnvAlways(cfg, env))
    /\ pc' = "trimmed"
    /\ UNCHANGED <<configReader, env, imds, deployFile, given, err, ret>>

\* Lines 331-348.
ResolveRateLimits ==
    /\ pc = "trimmed"
    /\ LET r == RateLimits(cfg, env)
       IN  IF r.err # NoErr THEN Fail(r.cfg, r.err)
           ELSE cfg' = r.cfg /\ pc' = "ratelimited" /\ UNCHANGED <<err, ret>>
    /\ UNCHANGED <<configReader, env, imds, deployFile, given>>

\* Lines 350-368.
ApplyDefaults ==
    /\ pc = "ratelimited"
    /\ LET r == Defaults(cfg, deployFile)
       IN  IF r.err # NoErr THEN Fail(r.cfg, r.err)
           ELSE cfg' = r.cfg /\ pc' = "defaulted" /\ UNCHANGED <<err, ret>>
    /\ UNCHANGED <<configReader, env, imds, deployFile, given>>

\* Lines 370-373.
Validate ==
    /\ pc = "defaulted"
    /\ IF validate(cfg) # NoErr THEN Fail(cfg, validate(cfg))
       ELSE cfg' = cfg /\ err' = NoErr /\ ret' = cfg /\ pc' = "done"
    /\ UNCHANGED <<configReader, env, imds, deployFile, given>>

Next == ReadConfig \/ ReadEnvironment \/ Normalize \/ ResolveRateLimits
        \/ ApplyDefaults \/ Validate

Spec == InitBuild /\ [][Next]_vars

----------------------------------------------------------------------------
(* Claims C6, C7, C10: BuildAzureConfig, under Spec.                        *)

\* C6 as claimed: whenever the populated configuration has both managed identity and
\* workload identity enabled, BuildAzureConfig has failed with the conflicting
\* identity error and returned no configuration, during population (no later step
\* runs on such a configuration), on the payload path as on the environment path.
C6_ConflictingIdentityFails ==
    (pc # "start" /\ cfg.UseManagedIdentityExtension /\ cfg.UseWorkloadIdentityExtension)
        => (pc = "done" /\ err = ConflictingIdentity /\ ret = NilConfig)

\* None of the four backoff tuning variables is set.
NoBackoffTuning ==
    \A v \in {"BACKOFF_RETRIES", "BACKOFF_EXPONENT", "BACKOFF_DURATION", "BACKOFF_JITTER"} :
        Getenv(env, v) = <<>>

\* steps = 6, exponent = 1.5, duration = 5 s, jitter = 1.0
ClaimedBackoff == [Steps |-> 6, Factor |-> 15, Duration |-> 5000, Jitter |-> 10]

\* BuildAzureConfig returned a configuration with backoff enabled.
ReturnedWithBackoff == pc = "done" /\ ret # NilConfig /\ ret.CloudProviderBackoff

\* C7 as claimed: when backoff is enabled and none of the four backoff tuning
\* variables is set, the configuration returned gives the backoff policy steps = 6,
\* exponent = 1.5, duration = 5 s, jitter = 1.0, whichever path enabled backoff.
C7_BackoffDefaultsOnEveryPath ==
    (ReturnedWithBackoff /\ NoBackoffTuning) => getAzureClientConfig(ret) = ClaimedBackoff

\* C7 (amended): on the environment path, when backoff is enabled and none of the four
\* backoff tuning variables is set, the configuration returned gives the backoff
\* policy steps = 6, exponent = 1.5, duration = 5 s, jitter = 1.0; on the payload path
\* no default is applied, and the policy is made of the payload's
\* cloudProviderBackoffRetries, -Exponent, -Duration and -Jitter (zero when absent).
C7_BackoffDefaultsOnEnvironmentPath ==
    /\ (ReturnedWithBackoff /\ NoBackoffTuning /\ configReader.nil)
          => getAzureClientConfig(ret) = ClaimedBackoff
    /\ (ReturnedWithBackoff /\ ~configReader.nil)
          => LET sent(key) == IF key \in DOMAIN configReader.body
                              THEN configReader.body[key] ELSE 0
             IN  getAzureClientConfig(ret) =
                    [Steps |-> sent("cloudProviderBackoffRetries"),
                     Factor |-> sent("cloudProviderBackoffExponent"),
                     Duration |-> sent("cloudProviderBackoffDuration") * 1000,
                     Jitter |-> sent("cloudProviderBackoffJitter")]

\* ENABLE_BACKOFF enabled backoff on the environment path, no tuning variable is set,
\* and the configuration returned carries the four defaults.
C7_Witness ==
    /\ ReturnedWithBackoff
    /\ configReader.nil
    /\ Getenv(env, "ENABLE_BACKOFF") # <<>>
    /\ NoBackoffTuning
    /\ getAzureClientConfig(ret) = ClaimedBackoff

\* s has no leading and no trailing white space.
NoOuterSpace(s) == s = <<>> \/ (s[1] \notin Space /\ s[Len(s)] \notin Space)

\* C10 as claimed: after population and before defaulting and validation, every string
\* field of Config has no leading or trailing white space, on both loading paths.
C10_EveryStringFieldTrimmed ==
    pc = "trimmed" => \A f \in StringFields : NoOuterSpace(cfg[f])

----------------------------------------------------------------------------
(* Claims C11, C12, C13: BuildAzureConfig, under Spec.                      *)

\* The three fields of c hold what the environment holds: the cluster name and the
\* cluster resource group as Config.TrimSpace leaves them, the base URL as read.
FromEnvironment(c) ==
    /\ c.ClusterName = stringsTrimSpace(Getenv(env, "CLUSTER_NAME"))
    /\ c.ClusterResourceGroup = stringsTrimSpace(Getenv(env, "ARM_CLUSTER_RESOURCE_GROUP"))
    /\ c.ARMBaseURLForAPClient = Getenv(env, "ARM_BASE_URL_FOR_AP_CLIENT")

\* C11: on both loading paths, from the end of population on and in the configuration
\* returned, ClusterName, ClusterResourceGroup and ARMBaseURLForAPClient hold the
\* values of CLUSTER_NAME, ARM_CLUSTER_RESOURCE_GROUP and ARM_BASE_URL_FOR_AP_CLIENT;
\* a value the payload gave never survives, and the field is empty when the variable
\* is unset.
C11_AlwaysFromEnvironment ==
    /\ pc \in {"trimmed", "ratelimited", "defaulted"} => FromEnvironment(cfg)
    /\ (pc = "done" /\ ret # NilConfig) => FromEnvironment(ret)

\* The payload gave a cluster name, CLUSTER_NAME is unset, and the configuration
\* returned has an empty cluster name.
C11_Witness ==
    /\ pc = "done"
    /\ ret # NilConfig
    /\ ~configReader.nil
    /\ "clusterName" \in DOMAIN configReader.body
    /\ configReader.body["clusterName"] # <<>>
    /\ "CLUSTER_NAME" \notin DOMAIN env
    /\ ret.ClusterName = <<>>

\* The errors Config.validate returns.
ValidationErrors == {"resource group not set", "deployment not set",
                     "deploymentParameters not set", "subscription ID not set",
                     "tenant ID not set", "ARM Client ID not set",
                     "unsupported authorization method",
                     "Cloud provider backoff is enabled but retries are not set"}

\* The VM type of c is the standard one, c has no deployment name and no deployment
\* parameters, and readDeploymentParameters yields none (an empty map or an error).
NoDeployment(c) ==
    /\ c.VMType = vmTypeStandard
    /\ c.Deployment = <<>>
    /\ c.DeploymentParameters = {}
    /\ (~deployFile.ok \/ deployFile.val = {})

\* C12 as claimed: from the point where BuildAzureConfig reads the deployment
\* parameters, a configuration of the standard VM type with no deployment name, no
\* inline parameters and no parameters from readDeploymentParameters (an empty map or
\* an error) ends in an error of Config.validate and no configuration returned.
C12_NoDeploymentFailsValidation ==
    [][(pc \in {"ratelimited", "defaulted"} /\ NoDeployment(cfg))
          => IF pc' = "done" THEN ret' = NilConfig /\ err' \in ValidationErrors
             ELSE NoDeployment(cfg')]_vars

\* C12 (amended): in that case BuildAzureConfig returns no configuration; when
\* readDeploymentParameters answers an empty map the error is the one of
\* Config.validate (resource group not set, else deployment not set); when
\* readDeploymentParameters fails the error is the one it returned, and validate
\* does not run.
C12_NoDeploymentFails ==
    [][(pc \in {"ratelimited", "defaulted"} /\ NoDeployment(cfg))
          => IF pc' = "done"
             THEN /\ ret' = NilConfig
                  /\ err' = IF ~deployFile.ok THEN "readDeploymentParameters failed"
                            ELSE IF cfg.ResourceGroup = <<>> THEN "resource group not set"
                            ELSE "deployment not set"
                  /\ ~deployFile.ok <=> pc = "ratelimited"
             ELSE NoDeployment(cfg') /\ deployFile.ok]_vars

\* readDeploymentParameters answered an empty map for a standard configuration with
\* no deployment name, and BuildAzureConfig returned the error of validate.
C12_Witness ==
    /\ pc = "done"
    /\ NoDeployment(cfg)
    /\ deployFile.ok
    /\ err = "deployment not set"
    /\ ret = NilConfig

\* C13: every configuration BuildAzureConfig returns has a resource group, a
\* subscription id and a VM type, and, when the VM type is the standard one, a
\* deployment name and deployment parameters; BuildAzureConfig returns a
\* configuration exactly when it returns no error.
C13_ReturnedConfigIsComplete ==
    pc = "done" =>
        /\ err # NoErr <=> ret = NilConfig
        /\ ret # NilConfig =>
              /\ ret.ResourceGroup # <<>>
              /\ ret.SubscriptionID # <<>>
              /\ ret.VMType # <<>>
              /\ ret.VMType = vmTypeStandard =>
                    (ret.Deployment # <<>> /\ ret.DeploymentParameters # {})

\* A configuration of the standard VM type was returned, its deployment parameters
\* read by readDeploymentParameters.
C13_Witness ==
    /\ pc = "done"
    /\ err = NoErr
    /\ ret # NilConfig
    /\ ret.VMType = vmTypeStandard
    /\ ret.Deployment # <<>>
    /\ ret.DeploymentParameters = deployFile.val
    /\ ret.DeploymentParameters # {}

====
